---- MODULE Spec2Model ----
(***************************************************************************)
(* gormxray: the X-Ray tracing plugin for GORM.                            *)
(*                                                                         *)
(* The module models plugin.go and options.go: NewPlugin and its options,  *)
(* Plugin.Initialize (hook registration), the before and after hooks,      *)
(* formatQuery and dbOperation with its four regular expressions.          *)
(* Text is a sequence of one-character strings.  A segment of the tracing  *)
(* backend is a record with the log of the calls made on it.               *)
(*                                                                         *)
(* Spec         one operation under every configuration, statement,        *)
(*              outcome and panic of a collaborator                        *)
(* SpecConc     the operations of NumInst instances interleaved            *)
(* SpecReg      Initialize with refused registrations, then one operation  *)
(* SpecClassify dbOperation on every statement of up to MaxTokens tokens   *)
(***************************************************************************)
EXTENDS Integers, Sequences, FiniteSets, TLC

VARIABLES
    excludeQueryVars,   \* Plugin.excludeQueryVars
    queryFormatter,     \* Plugin.queryFormatter ("nil" when none is configured)
    registered,         \* names the host accepted in Register
    attempted,          \* names Initialize passed to Register, in order
    initErr,            \* what Initialize returned ("unset" before it ran)
    tx,                 \* the operation instances, each a gorm.DB with its Statement
    segs,               \* the tracing backend: segment id -> segment
    query,              \* dbOperation: the statement text given
    operation,          \* dbOperation: the keyword returned
    ntok,               \* dbOperation: tokens the text was put together from
    cpc                 \* dbOperation: "build" while the text is put together

vars == <<excludeQueryVars, queryFormatter, registered, attempted, initErr,
          tx, segs, query, operation, ntok, cpc>>

pluginVars == <<excludeQueryVars, queryFormatter>>
hostVars == <<registered, attempted, initErr>>
opVars == <<tx, segs>>
classifyVars == <<query, operation, ntok, cpc>>

-----------------------------------------------------------------------------
(* Bounds *)

MaxTokens == 5      \* tokens a classified statement is put together from
NumInst == 2        \* operation instances that run concurrently
MaxFail == 2        \* registrations the host may refuse in one Initialize
MaxOpts == 2        \* options given to NewPlugin
MaxPieces == 4      \* comments, separators and keywords of a composed statement
MaxOps == 2         \* operations run one after another on one Statement

-----------------------------------------------------------------------------
(* Text *)

Min(S) == CHOOSE x \in S : \A y \in S : x <= y

UpperLetters ==
    <<"A","B","C","D","E","F","G","H","I","J","K","L","M",
      "N","O","P","Q","R","S","T","U","V","W","X","Y","Z">>

LowerLetters ==
    <<"a","b","c","d","e","f","g","h","i","j","k","l","m",
      "n","o","p","q","r","s","t","u","v","w","x","y","z">>

Digits == {"0","1","2","3","4","5","6","7","8","9"}

Range(f) == {f[x] : x \in DOMAIN f}

UpperSet == Range(UpperLetters)

\* \w of the regexp package: [0-9A-Za-z_]
WordChars == Range(UpperLetters) \cup Range(LowerLetters) \cup Digits \cup {"_"}

IsWord(c) == c \in WordChars

\* \s of the regexp package: [\t\n\f\r ]
IsSpace(c) == c \in {" ", "\n", "\t", "\r", "\f"}

\* strings.ToLower on one character
ToLowerChar(c) ==
    IF c \in UpperSet
    THEN LowerLetters[CHOOSE k \in DOMAIN UpperLetters : UpperLetters[k] = c]
    ELSE c

ToLower(s) == [k \in DOMAIN s |-> ToLowerChar(s[k])]

-----------------------------------------------------------------------------
(* dbOperation and its regular expressions *)

\* cCommentRegex = (?is)/\*.*?\*/ : the index of the last character of the
\* match that starts at i, 0 when none starts there.  The match is the
\* shortest one: it ends at the first "*/" that begins after the opener.
\* (variant: a greedy .* would end the match at the last "*/")
cCommentRegex_greedy(s, i) ==
    IF i + 1 <= Len(s) /\ s[i] = "/" /\ s[i + 1] = "*"
    THEN LET ends == {j \in (i + 2)..(Len(s) - 1) : s[j] = "*" /\ s[j + 1] = "/"}
         IN  IF ends = {} THEN 0 ELSE (CHOOSE j \in ends : \A k \in ends : k <= j) + 1
    ELSE 0

cCommentRegex(s, i) ==
    IF i + 1 <= Len(s) /\ s[i] = "/" /\ s[i + 1] = "*"
    THEN LET ends == {j \in (i + 2)..(Len(s) - 1) : s[j] = "*" /\ s[j + 1] = "/"}
         IN  IF ends = {} THEN 0 ELSE Min(ends) + 1
    ELSE 0

\* lineCommentRegex = (?im)(?:--|#).*?$ : "." does not match a newline and,
\* with the m flag, "$" matches before a newline and at the end of the text,
\* so the match runs from the marker to the end of its line (newline kept).
lineCommentRegex(s, i) ==
    LET body == IF i <= Len(s) /\ s[i] = "#" THEN i + 1
                ELSE IF i + 1 <= Len(s) /\ s[i] = "-" /\ s[i + 1] = "-" THEN i + 2
                ELSE 0
    IN  IF body = 0 THEN 0
        ELSE LET nl == {j \in body..Len(s) : s[j] = "\n"}
             IN  IF nl = {} THEN Len(s) ELSE Min(nl) - 1

MatchEnd(re, s, i) ==
    IF re = "cComment" THEN cCommentRegex(s, i) ELSE lineCommentRegex(s, i)

\* the start of the leftmost match at or after i, 0 when there is none
FindFrom(re, s, i) ==
    LET starts == {k \in i..Len(s) : MatchEnd(re, s, k) # 0}
    IN  IF starts = {} THEN 0 ELSE Min(starts)

\* Regexp.ReplaceAllString(s, ""): the leftmost matches, not overlapping,
\* are removed; the search goes on after the end of each match.
RECURSIVE ReplaceAllFrom(_, _, _)
ReplaceAllFrom(re, s, i) ==
    LET k == FindFrom(re, s, i)
    IN  IF k = 0 THEN SubSeq(s, i, Len(s))
        ELSE SubSeq(s, i, k - 1) \o ReplaceAllFrom(re, s, MatchEnd(re, s, k) + 1)

ReplaceAllString(re, s) == ReplaceAllFrom(re, s, 1)

\* sqlPrefixRegex = ^[\s;]* : the length of the match at the start of s
sqlPrefixRegex(s) ==
    LET stop == {j \in 1..Len(s) : ~(IsSpace(s[j]) \/ s[j] = ";")}
    IN  IF stop = {} THEN Len(s) ELSE Min(stop) - 1

\* firstWordRegex = ^\w+ : the length of the match at the start of s
firstWordRegex(s) ==
    LET stop == {j \in 1..Len(s) : ~IsWord(s[j])}
    IN  IF stop = {} THEN Len(s) ELSE Min(stop) - 1

\* (variant: the keyword returned as written, without strings.ToLower)
dbOperation_noLower(q) ==
    LET s1 == ReplaceAllString("cComment", q)
        s2 == ReplaceAllString("lineComment", s1)
        s3 == SubSeq(s2, sqlPrefixRegex(s2) + 1, Len(s2))
    IN  SubSeq(s3, 1, firstWordRegex(s3))

dbOperation(q) ==
    LET s1 == ReplaceAllString("cComment", q)
        s2 == ReplaceAllString("lineComment", s1)
        s3 == SubSeq(s2, sqlPrefixRegex(s2) + 1, Len(s2))
    IN  ToLower(SubSeq(s3, 1, firstWordRegex(s3)))

-----------------------------------------------------------------------------
(* options.go and NewPlugin *)

\* the formatters an application may configure: redactNumbers is the one of
\* the README (digits replaced by "?"), explainPrefix puts "EXPLAIN " first
Formatters == {"redactNumbers", "explainPrefix"}

\* PluginConfig{} as NewPlugin allocates it
PluginConfig == [ExcludeQueryVars |-> FALSE, QueryFormatter |-> "nil"]

WithExcludeQueryVars(exclude) == [option |-> "ExcludeQueryVars", exclude |-> exclude, formatter |-> "nil"]

WithQueryFormatter(formatter) == [option |-> "QueryFormatter", exclude |-> FALSE, formatter |-> formatter]

\* opt(cfg): what the closure an option returns does to the configuration
ApplyOption(opt, pc) ==
    IF opt.option = "ExcludeQueryVars"
    THEN [pc EXCEPT !.ExcludeQueryVars = opt.exclude]
    ELSE [pc EXCEPT !.QueryFormatter = opt.formatter]

RECURSIVE ApplyOptions(_, _)
ApplyOptions(opts, pc) ==
    IF opts = <<>> THEN pc
    ELSE ApplyOptions(Tail(opts), ApplyOption(Head(opts), pc))

\* the Plugin NewPlugin(opts...) returns
NewPlugin(opts) ==
    LET cfg == ApplyOptions(opts, PluginConfig)
    IN  [excludeQueryVars |-> cfg.ExcludeQueryVars, queryFormatter |-> cfg.QueryFormatter]

Options ==
    {WithExcludeQueryVars(b) : b \in BOOLEAN}
        \cup {WithQueryFormatter(f) : f \in Formatters \cup {"nil"}}

OptionLists == UNION {[1..n -> Options] : n \in 0..MaxOpts}

-----------------------------------------------------------------------------
(* Plugin.Initialize *)

Hook(point, phase, spanName, name) ==
    [point |-> point, phase |-> phase, spanName |-> spanName, name |-> name]

\* the hooks table of Initialize; an after hook has no span name
\* (variant: the row of the Row after hook copied from the Raw row and only
\* its callback changed)
hooks_copiedRow ==
    << Hook("Create", "Before", "gorm.Create", "before:create"),
       Hook("Create", "After",  "",            "after:create"),
       Hook("Query",  "Before", "gorm.Query",  "before:select"),
       Hook("Query",  "After",  "",            "after:select"),
       Hook("Delete", "Before", "gorm.Delete", "before:delete"),
       Hook("Delete", "After",  "",            "after:delete"),
       Hook("Update", "Before", "gorm.Update", "before:update"),
       Hook("Update", "After",  "",            "after:update"),
       Hook("Row",    "Before", "gorm.Row",    "before:row"),
       Hook("Row",    "After",  "",            "after:raw"),
       Hook("Raw",    "Before", "gorm.Raw",    "before:raw"),
       Hook("Raw",    "After",  "",            "after:raw") >>

hooks ==
    << Hook("Create", "Before", "gorm.Create", "before:create"),
       Hook("Create", "After",  "",            "after:create"),
       Hook("Query",  "Before", "gorm.Query",  "before:select"),
       Hook("Query",  "After",  "",            "after:select"),
       Hook("Delete", "Before", "gorm.Delete", "before:delete"),
       Hook("Delete", "After",  "",            "after:delete"),
       Hook("Update", "Before", "gorm.Update", "before:update"),
       Hook("Update", "After",  "",            "after:update"),
       Hook("Row",    "Before", "gorm.Row",    "before:row"),
       Hook("Row",    "After",  "",            "after:row"),
       Hook("Raw",    "Before", "gorm.Raw",    "before:raw"),
       Hook("Raw",    "After",  "",            "after:raw") >>

Kinds == {hooks[k].point : k \in DOMAIN hooks}

NoError == [failed |-> "", cause |-> 0]

\* fmt.Errorf("callback register %s failed: %w", h.name, err)
RegisterError(name, cause) == [failed |-> name, cause |-> cause]

\* h.callback.Register("xray:"+h.name, h.hook): the host refuses the hooks
\* in `refused`; the error it returns for hook k is identified by k
Register(k, refused) == IF k \in refused THEN k ELSE 0

InitializeState == [registered |-> {}, attempted |-> <<>>, firstErr |-> NoError]

\* one iteration of the loop over hooks
\* (variant: without the firstErr == nil test the last error would be kept)
RegisterStep_lastError(k, refused, st) ==
    LET h == hooks[k]
        err == Register(k, refused)
    IN  [ registered |->
              IF err = 0
              THEN st.registered \cup
                       {[point |-> h.point, phase |-> h.phase, name |-> "xray:" \o h.name,
                         spanName |-> h.spanName]}
              ELSE st.registered,
          attempted |-> Append(st.attempted, "xray:" \o h.name),
          firstErr |-> IF err # 0 THEN RegisterError(h.name, err) ELSE st.firstErr ]

RegisterStep(k, refused, st) ==
    LET h == hooks[k]
        err == Register(k, refused)
    IN  [ registered |->
              IF err = 0
              THEN st.registered \cup
                       {[point |-> h.point, phase |-> h.phase, name |-> "xray:" \o h.name,
                         spanName |-> h.spanName]}
              ELSE st.registered,
          attempted |-> Append(st.attempted, "xray:" \o h.name),
          firstErr |->
              IF err # 0 /\ st.firstErr = NoError
              THEN RegisterError(h.name, err)
              ELSE st.firstErr ]

RECURSIVE InitializeLoop(_, _, _)
InitializeLoop(k, refused, st) ==
    IF k > Len(hooks) THEN st
    ELSE InitializeLoop(k + 1, refused, RegisterStep(k, refused, st))

\* db.Use(plugin): Plugin.Initialize runs once, before any operation
Initialize(refused) ==
    /\ attempted = <<>>
    /\ LET st == InitializeLoop(1, refused, InitializeState)
       IN  /\ registered' = st.registered
           /\ attempted' = st.attempted
           /\ initErr' = st.firstErr
    /\ UNCHANGED <<pluginVars, opVars, classifyVars>>

Initialized == attempted # <<>>

HookRegistered(point, phase) ==
    \E r \in registered : r.point = point /\ r.phase = phase

-----------------------------------------------------------------------------
(* The tracing backend (xray) as the hooks use it *)

\* a nil *xray.Segment, and the context that carries no segment
NoSeg == <<"nil", 0, 0>>

\* the root segment the application opened with xray.BeginSegment
RootSeg == <<"segment", 0, 1>>

\* a segment is named by what created it: the kind of segment, the operation
\* instance whose hook created it, and a serial number within the two
NewSegId(kind, i, sg) ==
    <<kind, i, Cardinality({id \in DOMAIN sg : id[1] = kind /\ id[2] = i}) + 1>>

StrVal(s) == [type |-> "string", s |-> s, n |-> 0, err |-> "nil"]
IntVal(n) == [type |-> "int64", s |-> <<>>, n |-> n, err |-> "nil"]
ErrVal(e) == [type |-> "error", s |-> <<>>, n |-> 0, err |-> e]

\* the calls a segment received, in order
Call(op, key, val) == [op |-> op, key |-> key, val |-> val]

Segment(kind, name, parent) ==
    [kind |-> kind, name |-> name, parent |-> parent, calls |-> <<>>]

\* xray.GetSegment(ctx): a context is identified with the segment it carries
GetSegment(ctx) == ctx

\* xray.BeginSegment(ctx, name)
BeginSegment(sg, i, ctx, name) ==
    LET id == NewSegId("segment", i, sg)
    IN  [ctx |-> id, seg |-> id, segs |-> sg @@ (id :> Segment("segment", name, NoSeg))]

\* xray.BeginSubsegment(ctx, name): without a parent segment in ctx the SDK
\* reports the missing context and returns the context with a nil segment
BeginSubsegment(sg, i, ctx, name) ==
    IF GetSegment(ctx) = NoSeg
    THEN [ctx |-> ctx, seg |-> NoSeg, segs |-> sg]
    ELSE LET id == NewSegId("subsegment", i, sg)
         IN  [ctx |-> id, seg |-> id,
              segs |-> sg @@ (id :> Segment("subsegment", name, GetSegment(ctx)))]

\* the calls of operation op a segment received, by position
Calls(sg, id, op) == {k \in DOMAIN sg[id].calls : sg[id].calls[k].op = op}

Closes(sg, id) == Cardinality(Calls(sg, id, "Close"))

-----------------------------------------------------------------------------
(* The operation instance: a gorm.DB and its Statement *)

Inst == 1..NumInst

\* what the instance-scoped settings hold under "xray_subsegment": the
\* dynamic type of the value stored and, for a *xray.Segment, the segment
Absent == [present |-> FALSE, type |-> "", seg |-> NoSeg]
SegEntry(seg) == [present |-> TRUE, type |-> "*xray.Segment", seg |-> seg]
Foreign == [present |-> TRUE, type |-> "string", seg |-> NoSeg]

\* tx.InstanceSet(key, value)
\* (variant: one table shared by all instances instead of instance settings)
InstanceSet_shared(t, i, entry) == [j \in DOMAIN t |-> [t[j] EXCEPT !.Settings = entry]]

InstanceSet(t, i, entry) == [t EXCEPT ![i].Settings = entry]

\* tx.InstanceGet(key)
InstanceGet(t, i) == t[i].Settings

IdleTx ==
    [ pc |-> "idle", kind |-> "", Context |-> NoSeg, Settings |-> Absent,
      SQL |-> <<>>, Vars |-> <<>>, Table |-> <<>>, RowsAffected |-> 0 - 1,
      Error |-> "nil", callerCtx |-> NoSeg, explained |-> 0, panicked |-> "none",
      ops |-> 1 ]

-----------------------------------------------------------------------------
(* Rendering and formatting *)

Itoa(n) ==
    LET d == <<"0","1","2","3","4","5","6","7","8","9">>
    IN  IF n < 10 THEN <<d[n + 1]>> ELSE <<d[(n \div 10) + 1], d[(n % 10) + 1]>>

\* tx.Dialector.Explain(sql, vars...): each "?" of the statement is replaced
\* by the next bound value, a number as its digits and a string quoted
RenderVar(v) == IF v.type = "int64" THEN Itoa(v.n) ELSE <<"'">> \o v.s \o <<"'">>

RECURSIVE Explain(_, _)
Explain(sql, vs) ==
    IF sql = <<>> THEN <<>>
    ELSE IF Head(sql) = "?" /\ vs # <<>>
         THEN RenderVar(Head(vs)) \o Explain(Tail(sql), Tail(vs))
         ELSE <<Head(sql)>> \o Explain(Tail(sql), vs)

\* README: regexp.MustCompile(`\d+`).ReplaceAllString(query, "?")
RECURSIVE redactNumbers(_)
redactNumbers(q) ==
    IF q = <<>> THEN <<>>
    ELSE IF Head(q) \in Digits
         THEN IF Len(q) >= 2 /\ q[2] \in Digits
              THEN redactNumbers(Tail(q))
              ELSE <<"?">> \o redactNumbers(Tail(q))
         ELSE <<Head(q)>> \o redactNumbers(Tail(q))

explainPrefix(q) == <<"E","X","P","L","A","I","N"," ">> \o q

\* p.queryFormatter(query)
CallFormatter(f, q) == IF f = "redactNumbers" THEN redactNumbers(q) ELSE explainPrefix(q)

\* Plugin.formatQuery
formatQuery(q) ==
    IF queryFormatter # "nil" THEN CallFormatter(queryFormatter, q) ELSE q

-----------------------------------------------------------------------------
(* The hooks *)

\* the closure Plugin.before(spanName) returns, run on instance i
\* (variant: without the fallback segment)
before_noFallback(spanName, t, sg, i) ==
    LET sub == BeginSubsegment(sg, i, t[i].Context, spanName)
        t1 == [t EXCEPT ![i].Context = sub.ctx]
    IN  [tx |-> InstanceSet(t1, i, SegEntry(sub.seg)), segs |-> sub.segs]

\* (variant: the context BeginSubsegment returned not stored in the Statement)
before_keepsContext(spanName, t, sg, i) ==
    LET fb == IF GetSegment(t[i].Context) = NoSeg
              THEN BeginSegment(sg, i, t[i].Context, "FallbackParent")
              ELSE [ctx |-> t[i].Context, seg |-> NoSeg, segs |-> sg]
        sub == BeginSubsegment(fb.segs, i, fb.ctx, spanName)
        t1 == [t EXCEPT ![i].Context = fb.ctx]
    IN  [tx |-> InstanceSet(t1, i, SegEntry(sub.seg)), segs |-> sub.segs]

\* (variant: the subsegment begun a second time, the first one overwritten)
before_doubleStart(spanName, t, sg, i) ==
    LET fb == IF GetSegment(t[i].Context) = NoSeg
              THEN BeginSegment(sg, i, t[i].Context, "FallbackParent")
              ELSE [ctx |-> t[i].Context, seg |-> NoSeg, segs |-> sg]
        first == BeginSubsegment(fb.segs, i, fb.ctx, spanName)
        sub == BeginSubsegment(first.segs, i, fb.ctx, spanName)
        t1 == [t EXCEPT ![i].Context = sub.ctx]
    IN  [tx |-> InstanceSet(t1, i, SegEntry(sub.seg)), segs |-> sub.segs]

before(spanName, t, sg, i) ==
    LET fb == IF GetSegment(t[i].Context) = NoSeg
              THEN BeginSegment(sg, i, t[i].Context, "FallbackParent")
              ELSE [ctx |-> t[i].Context, seg |-> NoSeg, segs |-> sg]
        sub == BeginSubsegment(fb.segs, i, fb.ctx, spanName)
        t1 == [t EXCEPT ![i].Context = sub.ctx]
    IN  [tx |-> InstanceSet(t1, i, SegEntry(sub.seg)), segs |-> sub.segs]

\* the switch on tx.Error: the values compared equal are not recorded
\* (variant: only nil left unrecorded)
NonCritical_nilOnly(err) == err = "nil"

NonCritical(err) ==
    err \in {"nil", "gorm.ErrRecordNotFound", "driver.ErrSkip", "io.EOF", "sql.ErrNoRows"}

Step(at, calls) == [at |-> at, calls |-> calls]

\* the statement text the hook records, with the number of calls of the
\* host's Explain made for it: unexpanded, or rendered by the host
\* (variant: the flag not consulted)
RecordedQuery_alwaysExplain(x) == [query |-> Explain(x.SQL, x.Vars), explains |-> 1]

RecordedQuery(x) ==
    IF excludeQueryVars
    THEN [query |-> x.SQL, explains |-> 0]
    ELSE [query |-> Explain(x.SQL, x.Vars), explains |-> 1]

\* db.operation is computed from the formatted text
\* (variant: the keyword taken from the text before formatting)
OperationOf_unformatted(x, formatted) == dbOperation(RecordedQuery(x).query)

OperationOf(x, formatted) == dbOperation(formatted)

\* the body of the after hook from the deferred Close on, as the calls it
\* makes in order; `at` names the collaborator a step calls
\* (variant: the statement metadata attached only when the operation succeeded)
AfterSteps_metadataOnSuccess(x) ==
    LET recorded == RecordedQuery(x)
        formatted == formatQuery(recorded.query)
    IN  IF x.Error = "nil"
        THEN << Step("AddMetadata:db.query",
                     <<Call("AddMetadata", "db.query", StrVal(formatted))>>),
                Step("AddMetadata:db.operation",
                     <<Call("AddMetadata", "db.operation", StrVal(OperationOf(x, formatted)))>>) >>
        ELSE IF NonCritical(x.Error) THEN <<>>
        ELSE <<Step("AddError", <<Call("AddError", "", ErrVal(x.Error))>>)>>

\* (variant: the row count attached only when rows were affected)
AfterSteps_rowsWhenPositive(x) ==
    LET recorded == RecordedQuery(x)
        formatted == formatQuery(recorded.query)
    IN  (IF recorded.explains = 0 THEN <<>> ELSE <<Step("Explain", <<>>)>>)
        \o (IF queryFormatter # "nil" THEN <<Step("queryFormatter", <<>>)>> ELSE <<>>)
        \o << Step("AddMetadata:db.query",
                   <<Call("AddMetadata", "db.query", StrVal(formatted))>>),
              Step("AddMetadata:db.operation",
                   <<Call("AddMetadata", "db.operation", StrVal(OperationOf(x, formatted)))>>) >>
        \o (IF x.Table # <<>>
            THEN <<Step("AddMetadata:db.table",
                        <<Call("AddMetadata", "db.table", StrVal(x.Table))>>)>>
            ELSE <<>>)
        \o (IF x.RowsAffected > 0
            THEN <<Step("AddMetadata:db.rows.affected",
                        <<Call("AddMetadata", "db.rows.affected", IntVal(x.RowsAffected))>>)>>
            ELSE <<>>)
        \o (IF NonCritical(x.Error) THEN <<>>
            ELSE <<Step("AddError", <<Call("AddError", "", ErrVal(x.Error))>>)>>)

AfterSteps(x) ==
    LET recorded == RecordedQuery(x)
        formatted == formatQuery(recorded.query)
    IN  (IF recorded.explains = 0 THEN <<>> ELSE <<Step("Explain", <<>>)>>)
        \o (IF queryFormatter # "nil" THEN <<Step("queryFormatter", <<>>)>> ELSE <<>>)
        \o << Step("AddMetadata:db.query",
                   <<Call("AddMetadata", "db.query", StrVal(formatted))>>),
              Step("AddMetadata:db.operation",
                   <<Call("AddMetadata", "db.operation", StrVal(OperationOf(x, formatted)))>>) >>
        \o (IF x.Table # <<>>
            THEN <<Step("AddMetadata:db.table",
                        <<Call("AddMetadata", "db.table", StrVal(x.Table))>>)>>
            ELSE <<>>)
        \o (IF x.RowsAffected # 0 - 1
            THEN <<Step("AddMetadata:db.rows.affected",
                        <<Call("AddMetadata", "db.rows.affected", IntVal(x.RowsAffected))>>)>>
            ELSE <<>>)
        \o (IF NonCritical(x.Error) THEN <<>>
            ELSE <<Step("AddError", <<Call("AddError", "", ErrVal(x.Error))>>)>>)

\* the steps that complete when the collaborator named `fault` panics: all
\* of them when no step calls it
Completed(steps, fault) ==
    LET hit == {k \in DOMAIN steps : steps[k].at = fault}
    IN  IF hit = {} THEN steps ELSE SubSeq(steps, 1, Min(hit) - 1)

RECURSIVE CallsOf(_)
CallsOf(steps) ==
    IF steps = <<>> THEN <<>> ELSE Head(steps).calls \o CallsOf(Tail(steps))

\* defer subSegment.Close(nil): runs when the body returns and when it panics
\* (variant: Close called at the end of the body instead of deferred)
Deferred_notDeferred(raised) ==
    IF raised THEN <<>> ELSE <<Call("Close", "", ErrVal("nil"))>>

Deferred(raised) == <<Call("Close", "", ErrVal("nil"))>>

\* the closure Plugin.after() returns, run on instance i; steps is its body
\* on that instance (AfterSteps) and `fault` names the collaborator that
\* panics when called ("none": nothing panics)
\* (variant: without the subSegment == nil test, Close runs on a nil segment)
after_noNilCheck(t, sg, i, steps, fault) ==
    LET entry == InstanceGet(t, i)
        done == Completed(steps, fault)
        raised == Len(done) < Len(steps)
    IN  IF ~entry.present \/ entry.type # "*xray.Segment" THEN [tx |-> t, segs |-> sg]
        ELSE IF entry.seg = NoSeg
             THEN [tx |-> [t EXCEPT ![i].panicked = "nil pointer dereference"], segs |-> sg]
             ELSE [ tx |-> [t EXCEPT ![i].panicked = IF raised THEN fault ELSE "none"],
                    segs |-> [sg EXCEPT ![entry.seg].calls =
                                 @ \o CallsOf(done) \o Deferred(raised)] ]

\* (variant: the span closed only when the operation returned no error)
after_closeOnSuccess(t, sg, i, steps, fault) ==
    LET entry == InstanceGet(t, i)
    IN  IF ~entry.present \/ entry.type # "*xray.Segment" \/ entry.seg = NoSeg
        THEN [tx |-> t, segs |-> sg]
        ELSE [ tx |-> t,
               segs |-> [sg EXCEPT ![entry.seg].calls =
                            @ \o CallsOf(steps)
                              \o (IF t[i].Error = "nil" THEN Deferred(FALSE) ELSE <<>>)] ]

\* (variant: an error the hook does not record is also cleared on the instance)
after_clearsIgnorable(t, sg, i, steps, fault) ==
    LET entry == InstanceGet(t, i)
    IN  IF ~entry.present \/ entry.type # "*xray.Segment" \/ entry.seg = NoSeg
        THEN [tx |-> t, segs |-> sg]
        ELSE [ tx |-> [t EXCEPT ![i].Error = IF NonCritical(@) THEN "nil" ELSE @],
               segs |-> [sg EXCEPT ![entry.seg].calls =
                            @ \o CallsOf(steps) \o Deferred(FALSE)] ]

\* (variant: Close called where it is written, not deferred to the return)
after_closeFirst(t, sg, i, steps, fault) ==
    LET entry == InstanceGet(t, i)
    IN  IF ~entry.present \/ entry.type # "*xray.Segment" \/ entry.seg = NoSeg
        THEN [tx |-> t, segs |-> sg]
        ELSE [ tx |-> t,
               segs |-> [sg EXCEPT ![entry.seg].calls =
                            @ \o Deferred(FALSE) \o CallsOf(steps)] ]

after(t, sg, i, steps, fault) ==
    LET entry == InstanceGet(t, i)
        done == Completed(steps, fault)
        raised == Len(done) < Len(steps)
        explained == Cardinality({k \in DOMAIN steps :
                                     steps[k].at = "Explain" /\ k <= Len(done) + 1})
    IN  IF ~entry.present THEN [tx |-> t, segs |-> sg]
        ELSE IF entry.type # "*xray.Segment" \/ entry.seg = NoSeg
             THEN [tx |-> t, segs |-> sg]
             ELSE [ tx |-> [t EXCEPT ![i].explained = @ + explained,
                                     ![i].panicked = IF raised THEN fault ELSE "none"],
                    segs |-> [sg EXCEPT ![entry.seg].calls =
                                 @ \o CallsOf(done) \o Deferred(raised)] ]

-----------------------------------------------------------------------------
(* The host pipeline: what GORM does with an operation instance *)

Registration(point, phase) ==
    CHOOSE r \in registered : r.point = point /\ r.phase = phase

\* the host creates the instance of an operation of kind `kind`; ctx is the
\* context of the caller and pre what the settings hold under Key
HostBegin(i, kind, ctx, pre) ==
    /\ Initialized
    /\ tx[i].pc = "idle"
    /\ tx' = [tx EXCEPT ![i] = [IdleTx EXCEPT !.pc = "before", !.kind = kind,
                                              !.Context = ctx, !.callerCtx = ctx,
                                              !.Settings = pre]]
    /\ UNCHANGED <<pluginVars, hostVars, segs, classifyVars>>

\* an operation nested in the operation of instance j - 1, which is being
\* executed: it is started with the context of that instance's Statement
HostBeginNested(j, kind) ==
    /\ j - 1 \in Inst
    /\ tx[j - 1].pc = "execute"
    /\ HostBegin(j, kind, tx[j - 1].Context, Absent)

\* the application runs a further operation on the gorm.DB of a finished
\* one: the Statement, its Context and its settings are those of the
\* finished operation, so the entry under "xray_subsegment" is still there
HostReuse(i, kind) ==
    /\ Initialized
    /\ tx[i].pc = "done"
    /\ tx[i].ops < MaxOps
    /\ tx' = [tx EXCEPT ![i].pc = "before", ![i].kind = kind, ![i].ops = @ + 1]
    /\ UNCHANGED <<pluginVars, hostVars, segs, classifyVars>>

\* the host runs the callback registered before "gorm:<kind>"
Before(i) ==
    /\ tx[i].pc = "before"
    /\ HookRegistered(tx[i].kind, "Before")
    /\ LET r == before(Registration(tx[i].kind, "Before").spanName, tx, segs, i)
       IN  /\ tx' = [r.tx EXCEPT ![i].pc = "execute"]
           /\ segs' = r.segs
    /\ UNCHANGED <<pluginVars, hostVars, classifyVars>>

\* no callback is registered there: the host goes on
NoBefore(i) ==
    /\ tx[i].pc = "before"
    /\ ~HookRegistered(tx[i].kind, "Before")
    /\ tx' = [tx EXCEPT ![i].pc = "execute"]
    /\ UNCHANGED <<pluginVars, hostVars, segs, classifyVars>>

\* the host executes the operation and fills in the Statement and the error
HostExecute(i, stmt, table, rows, err) ==
    /\ tx[i].pc = "execute"
    /\ tx' = [tx EXCEPT ![i].pc = "after", ![i].SQL = stmt.SQL, ![i].Vars = stmt.Vars,
                        ![i].Table = table, ![i].RowsAffected = rows, ![i].Error = err]
    /\ UNCHANGED <<pluginVars, hostVars, segs, classifyVars>>

\* the host runs the callback registered after "gorm:<kind>"; a
\* collaborator among `faults` may panic in it
\* (variant: the hook drops the formatter of the plugin once it has used it)
After_dropsFormatter(i, faults) ==
    /\ tx[i].pc = "after"
    /\ HookRegistered(tx[i].kind, "After")
    /\ LET steps == AfterSteps(tx[i])
       IN  \E fault \in faults :
               LET r == after(tx, segs, i, steps, fault)
               IN  /\ tx' = [r.tx EXCEPT ![i].pc = "done"]
                   /\ segs' = r.segs
    /\ queryFormatter' = "nil"
    /\ UNCHANGED <<excludeQueryVars, hostVars, classifyVars>>

After(i, faults) ==
    /\ tx[i].pc = "after"
    /\ HookRegistered(tx[i].kind, "After")
    /\ LET steps == AfterSteps(tx[i])
       IN  \E fault \in faults :
               LET r == after(tx, segs, i, steps, fault)
               IN  /\ tx' = [r.tx EXCEPT ![i].pc = "done"]
                   /\ segs' = r.segs
    /\ UNCHANGED <<pluginVars, hostVars, classifyVars>>

NoAfter(i) ==
    /\ tx[i].pc = "after"
    /\ ~HookRegistered(tx[i].kind, "After")
    /\ tx' = [tx EXCEPT ![i].pc = "done"]
    /\ UNCHANGED <<pluginVars, hostVars, segs, classifyVars>>

-----------------------------------------------------------------------------
(* Inputs *)

Statement(sql, vs) == [SQL |-> sql, Vars |-> vs]

Select42 == Statement(<<"S","E","L","E","C","T"," ","4","2">>, <<>>)

SelectVar == Statement(<<"S","E","L","E","C","T"," ","?">>, <<IntVal(7)>>)

Statements ==
    { Select42,
      Statement(<<"S","E","L","E","C","T"," ","?">>, <<IntVal(7)>>),
      Statement(<<"-","-","x","\n","/","*","w","*","/",";","U","p","d","a","t","e"," ","t"," ","a","=","?",",","b","=","?">>,
                <<IntVal(42), StrVal(<<"a","b">>)>>) }

Tables == {<<>>, <<"u","s","e","r","s">>}

RowCounts == {0 - 1, 0}

Errors ==
    { "nil", "gorm.ErrRecordNotFound", "driver.ErrSkip", "io.EOF", "sql.ErrNoRows",
      "no such table: non_existent_table", "context canceled" }

Faults ==
    { "none", "Explain", "queryFormatter", "AddMetadata:db.query",
      "AddMetadata:db.operation", "AddMetadata:db.table",
      "AddMetadata:db.rows.affected", "AddError" }

Contexts == {NoSeg, RootSeg}

-----------------------------------------------------------------------------
(* The classifier on its own: a statement is put together from tokens and  *)
(* then handed to dbOperation.                                            *)

Tokens ==
    { <<"/", "*">>, <<"*", "/">>, <<"-", "-">>, <<"#">>, <<"\n">>, <<" ">>,
      <<";">>, <<"S">>, <<"e">> }

ClassifyIdle ==
    /\ query = <<>>
    /\ operation = <<>>
    /\ ntok = 0
    /\ cpc = "build"

\* the caller builds the statement text, one token at a time
AppendToken(t) ==
    /\ cpc = "build"
    /\ ntok < MaxTokens
    /\ query' = query \o t
    /\ ntok' = ntok + 1
    /\ UNCHANGED <<operation, cpc>>

\* plugin.go:132: dbOperation(formatQuery)
Classify ==
    /\ cpc = "build"
    /\ operation' = dbOperation(query)
    /\ cpc' = "done"
    /\ UNCHANGED <<query, ntok>>

\* A statement as an application writes it: whole block comments, whole line
\* comments (with the line break that ends them), separators and keywords.
Pieces ==
    { <<"/", "*", "*", "/">>,
      <<"/", "*", "-", "-", "#", "\n", "*", "/">>,
      <<"-", "-", "x", "\n">>,
      <<"-", "-", "/", "*", "\n">>,
      <<"#", "/", "*", "\n">>,
      <<" ">>, <<";">>,
      <<"S">>, <<"e">> }

\* the caller composes the statement text, one piece at a time
AppendPiece(p) ==
    /\ cpc = "build"
    /\ ntok < MaxPieces
    /\ query' = query \o p
    /\ ntok' = ntok + 1
    /\ UNCHANGED <<operation, cpc>>

-----------------------------------------------------------------------------
(* Specifications *)

\* the state once NewPlugin(opts...) has returned and the application has
\* opened its root segment; db.Use has not run yet
InitWith(optionLists) ==
    /\ \E opts \in optionLists :
           LET p == NewPlugin(opts)
           IN  /\ excludeQueryVars = p.excludeQueryVars
               /\ queryFormatter = p.queryFormatter
    /\ registered = {}
    /\ attempted = <<>>
    /\ initErr = NoError
    /\ tx = [i \in Inst |-> IdleTx]
    /\ segs = (RootSeg :> Segment("segment", "TestSegment", NoSeg))
    /\ ClassifyIdle

\* Spec: one operation, under every configuration, every statement, outcome
\* and fault; the host accepted every registration
Init == InitWith(OptionLists)

Next ==
    \/ Initialize({})
    \/ \E kind \in Kinds, ctx \in Contexts : HostBegin(1, kind, ctx, Absent)
    \/ Before(1)
    \/ \E stmt \in Statements, table \in Tables, rows \in RowCounts, err \in Errors :
           HostExecute(1, stmt, table, rows, err)
    \/ After(1, Faults)

Spec == Init /\ [][Next]_vars

\* SpecConc: the operations of all instances interleaved, under the default
\* configuration and the root segment of the application; the host accepted
\* every registration
InitConc == InitWith({<<>>})

NextConc ==
    \/ Initialize({})
    \/ \E i \in Inst, kind \in Kinds : HostBegin(i, kind, RootSeg, Absent)
    \/ \E i \in Inst : Before(i)
    \/ \E i \in Inst, err \in {"nil", "no such table: non_existent_table"} :
           HostExecute(i, Select42, <<>>, 0 - 1, err)
    \/ \E i \in Inst : After(i, {"none"})

SpecConc == InitConc /\ [][NextConc]_vars

\* SpecReg: the host refuses up to MaxFail registrations, then one operation
\* runs through whatever hooks were registered
InitReg == InitWith({<<>>})

Refusals == {r \in SUBSET (DOMAIN hooks) : Cardinality(r) <= MaxFail}

NextReg ==
    \/ \E refused \in Refusals : Initialize(refused)
    \/ \E kind \in Kinds, ctx \in Contexts, pre \in {Absent, SegEntry(NoSeg), Foreign} :
           HostBegin(1, kind, ctx, pre)
    \/ Before(1)
    \/ NoBefore(1)
    \/ \E err \in {"nil", "no such table: non_existent_table"} :
           HostExecute(1, Select42, <<>>, 0 - 1, err)
    \/ After(1, {"none"})
    \/ NoAfter(1)

SpecReg == InitReg /\ [][NextReg]_vars

\* SpecClassify: dbOperation on every statement of up to MaxTokens tokens
InitClassify == InitWith({<<>>})

NextClassify ==
    \/ \E t \in Tokens : AppendToken(t) /\ UNCHANGED <<pluginVars, hostVars, opVars>>
    \/ Classify /\ UNCHANGED <<pluginVars, hostVars, opVars>>

SpecClassify == InitClassify /\ [][NextClassify]_vars

\* SpecNest: the operation of instance 1 and, nested in the operation of the
\* instance before it, the operations of the other instances
InitNest == InitWith({<<>>})

NextNest ==
    \/ Initialize({})
    \/ \E kind \in Kinds, ctx \in Contexts : HostBegin(1, kind, ctx, Absent)
    \/ \E j \in Inst, kind \in Kinds : HostBeginNested(j, kind)
    \/ \E i \in Inst : Before(i)
    \/ \E i \in Inst, err \in {"nil", "no such table: non_existent_table"} :
           HostExecute(i, Select42, <<>>, 0 - 1, err)
    \/ \E i \in Inst : After(i, {"none"})

SpecNest == InitNest /\ [][NextNest]_vars

\* SpecConf: the operations of all instances interleaved, under every
\* configuration NewPlugin can return
InitConf == InitWith(OptionLists)

NextConf ==
    \/ Initialize({})
    \/ \E i \in Inst, kind \in {"Query", "Raw"} : HostBegin(i, kind, RootSeg, Absent)
    \/ \E i \in Inst : Before(i)
    \/ \E i \in Inst : HostExecute(i, SelectVar, <<>>, 0 - 1, "nil")
    \/ \E i \in Inst : After(i, {"none"})

SpecConf == InitConf /\ [][NextConf]_vars

\* SpecReuse: the host refuses up to MaxFail registrations; up to MaxOps
\* operations then run one after another on the same Statement
InitReuse == InitWith({<<>>})

NextReuse ==
    \/ \E refused \in Refusals : Initialize(refused)
    \/ \E kind \in {"Create", "Raw"} : HostBegin(1, kind, RootSeg, Absent)
    \/ \E kind \in {"Create", "Raw"} : HostReuse(1, kind)
    \/ Before(1)
    \/ NoBefore(1)
    \/ HostExecute(1, Select42, <<>>, 0 - 1, "nil")
    \/ After(1, {"none"})
    \/ NoAfter(1)

SpecReuse == InitReuse /\ [][NextReuse]_vars

\* SpecMix: dbOperation on every statement composed of up to MaxPieces whole
\* comments, separators and keywords
InitMix == InitWith({<<>>})

NextMix ==
    \/ \E p \in Pieces : AppendPiece(p) /\ UNCHANGED <<pluginVars, hostVars, opVars>>
    \/ Classify /\ UNCHANGED <<pluginVars, hostVars, opVars>>

SpecMix == InitMix /\ [][NextMix]_vars

-----------------------------------------------------------------------------
(* Claims *)

\* What the classifier is to return, stated on the text itself.
\* s without its block comments: "/*" up to the first "*/" after it
RECURSIVE NoBlockComments(_)
NoBlockComments(s) ==
    IF s = <<>> THEN <<>>
    ELSE LET closers == {j \in 3..(Len(s) - 1) : s[j] = "*" /\ s[j + 1] = "/"}
         IN  IF Len(s) >= 4 /\ s[1] = "/" /\ s[2] = "*" /\ closers # {}
             THEN NoBlockComments(SubSeq(s, Min(closers) + 2, Len(s)))
             ELSE <<Head(s)>> \o NoBlockComments(Tail(s))

\* s from its first newline on
RECURSIVE FromNewline(_)
FromNewline(s) ==
    IF s = <<>> \/ Head(s) = "\n" THEN s ELSE FromNewline(Tail(s))

\* s without its line comments: "--" or "#" up to the end of the line
RECURSIVE NoLineComments(_)
NoLineComments(s) ==
    IF s = <<>> THEN <<>>
    ELSE IF Head(s) = "#" \/ (Len(s) >= 2 /\ s[1] = "-" /\ s[2] = "-")
         THEN NoLineComments(FromNewline(s))
         ELSE <<Head(s)>> \o NoLineComments(Tail(s))

RECURSIVE NoLeadingSeparators(_)
NoLeadingSeparators(s) ==
    IF s # <<>> /\ (Head(s) \in {" ", "\n", "\t", "\r", "\f", ";"})
    THEN NoLeadingSeparators(Tail(s))
    ELSE s

RECURSIVE LeadingWordLowered(_)
LeadingWordLowered(s) ==
    IF s # <<>> /\ Head(s) \in WordChars
    THEN <<ToLowerChar(Head(s))>> \o LeadingWordLowered(Tail(s))
    ELSE <<>>

Keyword(s) == LeadingWordLowered(NoLeadingSeparators(NoLineComments(NoBlockComments(s))))

\* C10: for every statement text, dbOperation returns the lower-cased leading
\* run of word characters of the text once its block comments, then its line
\* comments, then its leading whitespace and semicolons are removed; it
\* returns the empty text when nothing but separators and comments is there.
C10_ClassifyIsLeadingKeyword ==
    cpc = "done" =>
        /\ operation = Keyword(query)
        /\ (\A k \in DOMAIN query : query[k] \in {" ", "\n", ";"}) => operation = <<>>

\* a statement with a block comment, a line comment and a line break before
\* its keyword has been classified
C10_Witness ==
    /\ cpc = "done"
    /\ query = <<"/", "*", "*", "/", "-", "-", "\n", "S">>
    /\ operation = <<"s">>

\* the spans (subsegments) the hooks of instance i opened
SpansOf(i) == {id \in DOMAIN segs : id[1] = "subsegment" /\ id[2] = i}

\* the fallback sessions (segments) the hooks of instance i began
SessionsOf(i) == {id \in DOMAIN segs : id[1] = "segment" /\ id[2] = i}

\* the entry under Key holds a span
HasSpan(i) ==
    /\ tx[i].Settings.present
    /\ tx[i].Settings.type = "*xray.Segment"
    /\ tx[i].Settings.seg # NoSeg

SpanOf(i) == tx[i].Settings.seg

\* the calls of operation op the span of instance i received
SpanCalls(i, op) == {k \in DOMAIN segs[SpanOf(i)].calls : segs[SpanOf(i)].calls[k].op = op}

\* C1: every run of the before hook opens exactly one span, and every run of
\* the after hook that finds the span attached closes it exactly once, after
\* an operation that succeeded and after one that failed.
C1_OneOpenOneClose ==
    \A i \in Inst :
        /\ tx[i].pc \in {"idle", "before"} => SpansOf(i) = {}
        /\ tx[i].pc \in {"execute", "after", "done"} =>
               /\ Cardinality(SpansOf(i)) = 1
               /\ HasSpan(i) /\ SpansOf(i) = {SpanOf(i)}
        /\ tx[i].pc \in {"execute", "after"} => Closes(segs, SpanOf(i)) = 0
        /\ tx[i].pc = "done" => Closes(segs, SpanOf(i)) = 1

\* two operations are done, one that failed and one that succeeded, and the
\* span of each is closed once
C1_Witness ==
    /\ tx[1].pc = "done" /\ tx[1].Error # "nil" /\ Closes(segs, SpanOf(1)) = 1
    /\ tx[2].pc = "done" /\ tx[2].Error = "nil" /\ Closes(segs, SpanOf(2)) = 1

\* the hook of the table that a kind and phase select
HookOf(kind, phase) ==
    hooks[CHOOSE k \in DOMAIN hooks : hooks[k].point = kind /\ hooks[k].phase = phase]

\* C2: however the hooks of concurrent operations interleave, the span the
\* after hook of an instance retrieves, annotates and closes is the span the
\* before hook of that instance opened, never the span of another instance.
C2_NoCrossAttach ==
    \A i \in Inst :
        /\ HasSpan(i) =>
               /\ SpanOf(i) \in SpansOf(i)
               /\ segs[SpanOf(i)].name = HookOf(tx[i].kind, "Before").spanName
        /\ \A id \in SpansOf(i) :
               /\ segs[id].calls # <<>> => tx[i].pc = "done" /\ id = SpanOf(i)
               /\ \A k \in DOMAIN segs[id].calls :
                      segs[id].calls[k].op = "AddError" =>
                          segs[id].calls[k].val = ErrVal(tx[i].Error)
        /\ tx[i].pc = "done" => segs[SpanOf(i)].calls # <<>>

\* the before hook of instance 2 ran between the two hooks of instance 1,
\* instance 1 is done and annotated while the span of instance 2 is open
C2_Witness ==
    /\ tx[1].pc = "done" /\ tx[1].Error # "nil" /\ tx[1].kind = "Create"
    /\ tx[2].pc = "after" /\ tx[2].Error = "nil" /\ tx[2].kind = "Raw"
    /\ SpanOf(1) # SpanOf(2)
    /\ SpanCalls(1, "AddError") # {} /\ segs[SpanOf(2)].calls = <<>>

\* C6: Initialize hands all twelve hooks to the host whichever of them the
\* host refuses; it returns no error exactly when the host accepted all
\* twelve, and otherwise the error that wraps the refusal of the first
\* refused hook in the order of the table.
C6_InitializeBestEffortFirstError ==
    Initialized =>
        LET accepted == {k \in DOMAIN hooks :
                            \E r \in registered : r.name = "xray:" \o hooks[k].name}
            refusedHooks == DOMAIN hooks \ accepted
        IN  /\ attempted = [k \in DOMAIN hooks |-> "xray:" \o hooks[k].name]
            /\ Len(attempted) = 12
            /\ Cardinality(registered) = Cardinality(accepted)
            /\ (initErr = NoError) <=> (Cardinality(accepted) = 12)
            /\ refusedHooks # {} =>
                   initErr = RegisterError(hooks[Min(refusedHooks)].name, Min(refusedHooks))

\* the host refused two hooks, a later hook was registered all the same and
\* the error names the first of the two
C6_Witness ==
    /\ Initialized
    /\ ~HookRegistered("Query", "Before")
    /\ ~HookRegistered("Update", "After")
    /\ HookRegistered("Raw", "After")
    /\ Cardinality(registered) = 10
    /\ initErr = RegisterError("before:select", 3)

\* the values of the calls of operation op with key `key` on the span of i
SpanValues(i, op, key) ==
    {segs[SpanOf(i)].calls[k].val :
        k \in {n \in SpanCalls(i, op) : segs[SpanOf(i)].calls[n].key = key}}

C4_ClosedOnEveryExit ==
    \A i \in Inst :
        (tx[i].pc = "done" /\ HasSpan(i)) =>
            LET calls == segs[SpanOf(i)].calls
            IN  /\ Closes(segs, SpanOf(i)) = 1
                /\ calls[Len(calls)].op = "Close"

\* the operation was cancelled, AddError panicked, and the span is closed
C4_Witness ==
    /\ tx[1].pc = "done"
    /\ tx[1].Error = "context canceled"
    /\ tx[1].panicked = "AddError"
    /\ HasSpan(1) /\ Closes(segs, SpanOf(1)) = 1

\* C5: the after hook run on an instance whose settings hold no span under
\* Key (no entry, a nil segment, a value of another type) calls no segment,
\* raises nothing and leaves the instance as it was.
C5_NoSpanNoOp ==
    [][\A i \in Inst :
          (/\ tx[i].pc = "after"
           /\ tx'[i].pc = "done"
           /\ HookRegistered(tx[i].kind, "After")
           /\ ~HasSpan(i))
          => /\ segs' = segs
             /\ tx'[i] = [tx[i] EXCEPT !.pc = "done"]
             /\ tx'[i].panicked = "none"]_vars

\* the after hook ran where the before hook was refused and the settings
\* held a nil segment; no span exists
C5_Witness ==
    /\ tx[1].pc = "done"
    /\ HookRegistered(tx[1].kind, "After")
    /\ ~HookRegistered(tx[1].kind, "Before")
    /\ tx[1].Settings = SegEntry(NoSeg)
    /\ SpansOf(1) = {}

\* C7: when the before hook returns, an open span is attached to the
\* instance.  If the context of the caller carried no segment, one fallback
\* segment was begun and the span is its child; if it carried one, no
\* fallback segment was begun and the span is the child of that segment.
C7_SpanAlwaysOpened ==
    \A i \in Inst :
        tx[i].pc = "execute" =>
            /\ HasSpan(i)
            /\ SpanOf(i) \in DOMAIN segs
            /\ segs[SpanOf(i)].kind = "subsegment"
            /\ segs[SpanOf(i)].calls = <<>>
            /\ IF tx[i].callerCtx = NoSeg
               THEN /\ Cardinality(SessionsOf(i)) = 1
                    /\ \A id \in SessionsOf(i) :
                           /\ segs[id].name = "FallbackParent"
                           /\ segs[SpanOf(i)].parent = id
               ELSE /\ SessionsOf(i) = {}
                    /\ segs[SpanOf(i)].parent = tx[i].callerCtx

\* the before hook ran on an instance whose context carried no segment
C7_Witness ==
    /\ tx[1].pc = "execute"
    /\ tx[1].callerCtx = NoSeg
    /\ HasSpan(1)
    /\ SessionsOf(1) # {}

\* C8: with excludeQueryVars set, the db.query of the span comes from the
\* unexpanded statement and Explain is not called, whatever the bound values;
\* without it, db.query comes from Explain of the statement and the values.
C8_ExcludeQueryVars ==
    \A i \in Inst :
        (tx[i].pc = "done" /\ HasSpan(i)) =>
            LET source == IF excludeQueryVars THEN tx[i].SQL
                          ELSE Explain(tx[i].SQL, tx[i].Vars)
                text == IF queryFormatter = "nil" THEN source
                        ELSE CallFormatter(queryFormatter, source)
            IN  /\ SpanValues(i, "AddMetadata", "db.query") \subseteq {StrVal(text)}
                /\ tx[i].panicked = "none" =>
                       SpanValues(i, "AddMetadata", "db.query") = {StrVal(text)}
                /\ tx[i].explained = IF excludeQueryVars THEN 0 ELSE 1

\* with excludeQueryVars set, a statement with a bound value was recorded
\* with its placeholder
C8_Witness ==
    /\ excludeQueryVars
    /\ queryFormatter = "nil"
    /\ tx[1].pc = "done"
    /\ tx[1].Vars = <<IntVal(7)>>
    /\ tx[1].explained = 0
    /\ SpanValues(1, "AddMetadata", "db.query") = {StrVal(tx[1].SQL)}
    /\ Explain(tx[1].SQL, tx[1].Vars) # tx[1].SQL

\* C9: with a formatter f configured, db.query is f(text) and db.operation is
\* the keyword of f(text), text being the statement text the hook recorded;
\* with none configured, they are text and the keyword of text.
C9_FormatterFeedsBoth ==
    \A i \in Inst :
        (tx[i].pc = "done" /\ HasSpan(i)) =>
            LET text == IF excludeQueryVars THEN tx[i].SQL
                        ELSE Explain(tx[i].SQL, tx[i].Vars)
                f == IF queryFormatter = "nil" THEN text
                     ELSE CallFormatter(queryFormatter, text)
            IN  /\ SpanValues(i, "AddMetadata", "db.query") \subseteq {StrVal(f)}
                /\ SpanValues(i, "AddMetadata", "db.operation") \subseteq {StrVal(Keyword(f))}
                /\ tx[i].panicked = "none" =>
                       /\ SpanValues(i, "AddMetadata", "db.query") = {StrVal(f)}
                       /\ SpanValues(i, "AddMetadata", "db.operation") = {StrVal(Keyword(f))}

\* the formatter changed the leading keyword and db.operation shows the
\* keyword of the formatted text
C9_Witness ==
    /\ queryFormatter = "explainPrefix"
    /\ tx[1].pc = "done"
    /\ tx[1].SQL = Select42.SQL
    /\ SpanValues(1, "AddMetadata", "db.operation") = {StrVal(<<"e","x","p","l","a","i","n">>)}
    /\ dbOperation(tx[1].SQL) = <<"s","e","l","e","c","t">>

\* What a reader of SQL takes the statement to be: the text is read once from
\* the left, a comment begins only outside another comment.  SkipMix(s) is s
\* without its leading comments, whitespace and semicolons.
RECURSIVE SkipMix(_)
SkipMix(s) ==
    IF s = <<>> THEN s
    ELSE IF Head(s) \in {" ", "\n", "\t", "\r", "\f", ";"} THEN SkipMix(Tail(s))
    ELSE IF Head(s) = "#" \/ (Len(s) >= 2 /\ s[1] = "-" /\ s[2] = "-")
         THEN SkipMix(FromNewline(s))
    ELSE LET closers == {j \in 3..(Len(s) - 1) : s[j] = "*" /\ s[j + 1] = "/"}
         IN  IF Len(s) >= 4 /\ s[1] = "/" /\ s[2] = "*" /\ closers # {}
             THEN SkipMix(SubSeq(s, Min(closers) + 2, Len(s)))
             ELSE s

\* s is comments, whitespace and semicolons and then, at most, one keyword
MixThenKeyword(s) == \A k \in DOMAIN SkipMix(s) : SkipMix(s)[k] \in WordChars

\* C11: for a statement that is any mix of block comments, line comments,
\* whitespace and semicolons followed by a keyword (a line comment may hold
\* a block-comment opener, a block comment may hold "--" or "#"), dbOperation
\* returns that keyword lower-cased, and the empty text when the statement
\* holds comments and separators only.
C11_FirstTrueKeyword ==
    (cpc = "done" /\ MixThenKeyword(query)) => operation = ToLower(SkipMix(query))

\* what the caller of the operation observes of the instance
Outcome(x) ==
    [Error |-> x.Error, SQL |-> x.SQL, Vars |-> x.Vars, Table |-> x.Table,
     RowsAffected |-> x.RowsAffected]

\* C12: the before hook changes the Context of the Statement and the
\* instance settings and nothing else of the instance; the after hook changes
\* no field of the instance: the error, the statement text, the bound
\* values, the table name and the affected-row count the caller observes are
\* those the host produced.
C12_HooksKeepOutcome ==
    [][\A i \in Inst :
          /\ (tx[i].pc = "before" /\ tx'[i].pc = "execute") =>
                 [tx'[i] EXCEPT !.Context = tx[i].Context, !.Settings = tx[i].Settings]
                     = [tx[i] EXCEPT !.pc = "execute"]
          /\ (tx[i].pc = "after" /\ tx'[i].pc = "done") =>
                 /\ Outcome(tx'[i]) = Outcome(tx[i])
                 /\ tx'[i].Context = tx[i].Context
                 /\ tx'[i].Settings = tx[i].Settings
                 /\ tx'[i].kind = tx[i].kind]_vars

\* the after hook ran on an operation that ended with record-not-found: the
\* span carries no error marker and the caller still observes the error
C12_Witness ==
    /\ tx[1].pc = "done"
    /\ HasSpan(1) /\ Closes(segs, SpanOf(1)) = 1
    /\ tx[1].Error = "gorm.ErrRecordNotFound"
    /\ tx[1].SQL = Select42.SQL
    /\ SpanCalls(1, "AddError") = {}

\* C13: under the default configuration, an operation started with the root
\* segment of the application in its context, whose statement has no bound
\* values and which ends without error, leaves exactly one span: a child of
\* the root segment (no fallback segment was begun), closed once, carrying
\* db.query equal to the statement text, db.operation equal to its leading
\* keyword in lower case, and no error marker.  For "SELECT 42" these are
\* "SELECT 42" and "select".
C13_RawStatementEndToEnd ==
    \A i \in Inst :
        (/\ ~excludeQueryVars /\ queryFormatter = "nil"
         /\ tx[i].pc = "done" /\ tx[i].panicked = "none"
         /\ tx[i].callerCtx = RootSeg
         /\ tx[i].Vars = <<>> /\ tx[i].Error = "nil")
        => /\ Cardinality(SpansOf(i)) = 1
           /\ SessionsOf(i) = {}
           /\ HasSpan(i) /\ SpanOf(i) \in SpansOf(i)
           /\ segs[SpanOf(i)].parent = RootSeg
           /\ Closes(segs, SpanOf(i)) = 1
           /\ SpanValues(i, "AddMetadata", "db.query") = {StrVal(tx[i].SQL)}
           /\ SpanValues(i, "AddMetadata", "db.operation")
                  = {StrVal(LeadingWordLowered(tx[i].SQL))}
           /\ Cardinality({k \in SpanCalls(i, "AddMetadata") :
                   segs[SpanOf(i)].calls[k].key \in {"db.query", "db.operation"}}) = 2
           /\ SpanCalls(i, "AddError") = {}
           /\ tx[i].SQL = Select42.SQL =>
                  /\ SpanValues(i, "AddMetadata", "db.query")
                         = {StrVal(<<"S","E","L","E","C","T"," ","4","2">>)}
                  /\ SpanValues(i, "AddMetadata", "db.operation")
                         = {StrVal(<<"s","e","l","e","c","t">>)}

\* "SELECT 42" was run under the root segment with the default configuration
\* and its span is closed with the two values
C13_Witness ==
    /\ ~excludeQueryVars /\ queryFormatter = "nil"
    /\ tx[1].pc = "done" /\ tx[1].panicked = "none"
    /\ tx[1].callerCtx = RootSeg /\ tx[1].Error = "nil"
    /\ tx[1].SQL = Select42.SQL
    /\ Closes(segs, SpanOf(1)) = 1
    /\ SpanValues(1, "AddMetadata", "db.operation") = {StrVal(<<"s","e","l","e","c","t">>)}
    /\ SessionsOf(1) = {}

\* the positions of the calls of operation op with key `key` on the span of i
SpanCallsAt(i, op, key) ==
    {k \in SpanCalls(i, op) : segs[SpanOf(i)].calls[k].key = key}

C16_SpanEventsOrdered ==
    /\ [](\A i \in Inst : \A id \in SpansOf(i) :
              LET calls == segs[id].calls
              IN  /\ tx[i].pc \in {"execute", "after"} => calls = <<>>
                  /\ \A k \in DOMAIN calls :
                         /\ calls[k].op = "Close" => k = Len(calls)
                         /\ calls[k].op = "AddError" =>
                                \A n \in DOMAIN calls :
                                    calls[n].op = "AddMetadata" => n < k)
    /\ [](\A i \in Inst : tx[i].pc \in {"idle", "before"} => SpansOf(i) = {})
    /\ [][\A id \in DOMAIN segs : Closes(segs, id) > 0 => segs'[id] = segs[id]]_vars

\* a failed operation is done: its span carries four metadata, then the
\* error marker, then the Close
C16_Witness ==
    /\ tx[1].pc = "done" /\ HasSpan(1)
    /\ Len(segs[SpanOf(1)].calls) = 6
    /\ Cardinality(SpanCalls(1, "AddMetadata")) = 4
    /\ segs[SpanOf(1)].calls[5].op = "AddError"
    /\ segs[SpanOf(1)].calls[6].op = "Close"

\* C17: the after hook, when it returns, has attached db.table exactly when
\* the table name of the Statement is not empty (and then that name), and
\* db.rows.affected exactly when RowsAffected is not -1 (and then that
\* count, 0 included); db.query and db.operation are attached in every case.
\* No other key is attached.
C17_OptionalMetadata ==
    \A i \in Inst :
        (tx[i].pc = "done" /\ HasSpan(i) /\ tx[i].panicked = "none") =>
            /\ IF tx[i].Table # <<>>
               THEN /\ Cardinality(SpanCallsAt(i, "AddMetadata", "db.table")) = 1
                    /\ SpanValues(i, "AddMetadata", "db.table") = {StrVal(tx[i].Table)}
               ELSE SpanCallsAt(i, "AddMetadata", "db.table") = {}
            /\ IF tx[i].RowsAffected # 0 - 1
               THEN /\ Cardinality(SpanCallsAt(i, "AddMetadata", "db.rows.affected")) = 1
                    /\ SpanValues(i, "AddMetadata", "db.rows.affected")
                           = {IntVal(tx[i].RowsAffected)}
               ELSE SpanCallsAt(i, "AddMetadata", "db.rows.affected") = {}
            /\ SpanCallsAt(i, "AddMetadata", "db.query") # {}
            /\ SpanCallsAt(i, "AddMetadata", "db.operation") # {}
            /\ \A k \in SpanCalls(i, "AddMetadata") :
                   segs[SpanOf(i)].calls[k].key
                       \in {"db.query", "db.operation", "db.table", "db.rows.affected"}

\* an operation without a table name that affected no row is done: its span
\* carries the count 0 and no table
C17_Witness ==
    /\ tx[1].pc = "done" /\ HasSpan(1) /\ tx[1].panicked = "none"
    /\ tx[1].Table = <<>> /\ tx[1].RowsAffected = 0
    /\ SpanValues(1, "AddMetadata", "db.rows.affected") = {IntVal(0)}
    /\ SpanCallsAt(1, "AddMetadata", "db.table") = {}

\* the six operation kinds by the name of their callback processor: Create,
\* Read (Query), Update, Delete, RawRow (Row), RawStatement (Raw)
SixKinds == {"Create", "Query", "Update", "Delete", "Row", "Raw"}

\* C18: Initialize hands the host twelve registrations under twelve names
\* that differ pairwise; for each of the six operation kinds one is the
\* before hook, placed before the execution point of the kind, and one is
\* the after hook, placed after it.  Where the host accepted all of them,
\* exactly one hook is registered per kind and phase.
C18_OnePairPerKind ==
    Initialized =>
        /\ Len(attempted) = 12
        /\ \A m, n \in DOMAIN attempted : m # n => attempted[m] # attempted[n]
        /\ \A r \in registered :
               /\ r.point \in SixKinds
               /\ r.phase \in {"Before", "After"}
               /\ (r.phase = "Before") <=> (r.spanName # "")
               /\ \A q \in registered :
                      (q.point = r.point /\ q.phase = r.phase) \/ q.name # r.name
        /\ \A kind \in SixKinds, phase \in {"Before", "After"} :
               /\ Cardinality({r \in registered : r.point = kind /\ r.phase = phase}) <= 1
               /\ initErr = NoError =>
                      Cardinality({r \in registered : r.point = kind /\ r.phase = phase}) = 1
        /\ initErr = NoError => Cardinality({r.name : r \in registered}) = 12

\* the host accepted every registration: twelve hooks under twelve names
C18_Witness ==
    /\ Initialized
    /\ initErr = NoError
    /\ Cardinality(registered) = 12
    /\ Cardinality({r.name : r \in registered}) = 12
    /\ \A kind \in SixKinds : HookRegistered(kind, "Before") /\ HookRegistered(kind, "After")

\* C19: when the before hook has returned, the context of the Statement is
\* the context that carries the span just opened; an operation started from
\* that context gets a span of its own whose parent is that span, and no
\* fallback segment is begun for it.
C19_NestedSpanIsChild ==
    /\ \A i \in Inst :
           tx[i].pc = "execute" =>
               /\ HasSpan(i)
               /\ GetSegment(tx[i].Context) = SpanOf(i)
    /\ \A j \in Inst \ {1} :
           tx[j].pc \in {"execute", "after", "done"} =>
               /\ HasSpan(j) /\ HasSpan(j - 1)
               /\ SpanOf(j) # SpanOf(j - 1)
               /\ segs[SpanOf(j)].parent = SpanOf(j - 1)
               /\ SessionsOf(j) = {}

\* the caller had no segment: a fallback segment was begun for instance 1,
\* and the span of the nested instance 2 is a child of the span of instance 1
C19_Witness ==
    /\ tx[1].pc = "execute" /\ tx[1].callerCtx = NoSeg
    /\ tx[2].pc = "execute"
    /\ segs[SpanOf(2)].parent = SpanOf(1)
    /\ segs[segs[SpanOf(1)].parent].name = "FallbackParent"
    /\ SessionsOf(2) = {}

\* the statement text a span is to carry under a given configuration
ConfiguredQuery(exclude, formatter, x) ==
    LET text == IF exclude THEN x.SQL ELSE Explain(x.SQL, x.Vars)
    IN  IF formatter = "nil" THEN text ELSE CallFormatter(formatter, text)

\* C20: the configuration of the plugin is what the options gave it when
\* NewPlugin returned and no step of any hook, however the operations of
\* the instances interleave, changes it; every after hook has recorded the
\* statement as that one configuration prescribes.
C20_ConfigurationFixed ==
    /\ [][/\ excludeQueryVars' = excludeQueryVars
          /\ queryFormatter' = queryFormatter]_vars
    /\ [](\E opts \in OptionLists :
              NewPlugin(opts) = [excludeQueryVars |-> excludeQueryVars,
                                 queryFormatter |-> queryFormatter])
    /\ [](\A i \in Inst :
              (tx[i].pc = "done" /\ HasSpan(i)) =>
                  SpanValues(i, "AddMetadata", "db.query")
                      = {StrVal(ConfiguredQuery(excludeQueryVars, queryFormatter, tx[i]))})

\* two operations are done under a configuration with a formatter and with
\* excludeQueryVars set, and both spans show it
C20_Witness ==
    /\ excludeQueryVars /\ queryFormatter = "explainPrefix"
    /\ tx[1].pc = "done" /\ tx[2].pc = "done"
    /\ SpanValues(1, "AddMetadata", "db.query") = {StrVal(explainPrefix(SelectVar.SQL))}
    /\ SpanValues(2, "AddMetadata", "db.query") = {StrVal(explainPrefix(SelectVar.SQL))}

\* C21: over every sequence of hook runs on an instance, each span is closed
\* at most once: once the after hook has closed the span, a further run of
\* the after hook on the instance finds no span to close and calls no
\* segment.
C21_ClosedAtMostOnce ==
    \A id \in DOMAIN segs : Closes(segs, id) <= 1

\* C22: when the after hook of an instance has returned, everything the
\* before hook of the instance created in the tracing backend is closed: the
\* span, and the fallback segment if one was begun.
C22_AllResourcesClosed ==
    \A i \in Inst :
        (tx[i].pc = "done" /\ HookRegistered(tx[i].kind, "After")) =>
            \A id \in SpansOf(i) \cup SessionsOf(i) : Closes(segs, id) >= 1

\* C23: whichever registrations the host refused in Initialize, every span a
\* registered before hook opened is closed once the operation has gone
\* through the pipeline of the host: no kind has its before hook registered
\* and opening spans while no after hook is registered to close them.
C23_OpenedSpansClosed ==
    \A i \in Inst :
        tx[i].pc = "done" => \A id \in SpansOf(i) : Closes(segs, id) >= 1

====
